---- MODULE Spec2Model ----
(***************************************************************************)
(* The in-memory artifact service of artifactservice/service.go: one       *)
(* ordered map from encoded artifact keys to parts, and the five           *)
(* operations Save, Load, Delete, List and Versions on it.                 *)
(*                                                                         *)
(* Strings are sequences of byte values.  An encoded key is the sequence   *)
(* of bytes ordered.Encode produces; the map is ordered by the             *)
(* lexicographic order of these sequences (Go string comparison).          *)
(***************************************************************************)
EXTENDS Integers, Sequences, FiniteSets, TLC

(***************************************************************************)
(* Bounds of the model.                                                    *)
(***************************************************************************)
\* Save is not taken once it would assign a version above MaxVersion.
MaxVersion == 2
\* Save is not taken once the map holds MaxRecords records.
MaxRecords == 2
\* Width in bits of the model's int64 (the version and its encoding).
IntBits == 4
\* The number of calls the goroutines make concurrently, all together.
MaxCalls == 3

MaxInt64 == 2 ^ (IntBits - 1) - 1

(***************************************************************************)
(* Input values.                                                           *)
(***************************************************************************)
NoString == << >>
Apps     == { <<97>> }
Users    == { <<117>> }
Sessions == { <<115>>, <<115, 0>> }
Files    == { <<102>>, <<103>> }
\* The files of the calls: two files of one session, and a file of the same
\* name in the session whose identifier is the first one's followed by NUL.
FileIds ==
    { [AppName |-> <<97>>, UserID |-> <<117>>, SessionID |-> <<115>>, FileName |-> <<102>>],
      [AppName |-> <<97>>, UserID |-> <<117>>, SessionID |-> <<115>>, FileName |-> <<103>>],
      [AppName |-> <<97>>, UserID |-> <<117>>, SessionID |-> <<115, 0>>, FileName |-> <<102>>] }
\* *genai.Part values; NilPart is the nil pointer.
NilPart  == "nil"
Parts    == { "P1", "P2" }
ReqVersions == (0 - 1) .. MaxVersion

\* The goroutines that call the service concurrently.
Procs == { "g1", "g2", "g3" }
NoProc == "none"

VARIABLES
    artifacts,  \* inMemoryService.artifacts: encoded key -> part
    last,       \* the last call made alone: operation, request, response,
                \* and what is recorded of the calls before it
    mu,         \* inMemoryService.mu: the writer and the readers holding it
    pc,         \* for each goroutine, where it is in its call
    call,       \* for each goroutine, its call: operation, request, response
    assigned,   \* the versions and parts the Saves wrote since the last Delete
    started     \* the number of concurrent calls begun

vars == << artifacts, last, mu, pc, call, assigned, started >>

(***************************************************************************)
(* rsc.io/ordered: the byte encoding of a key.  A string is its bytes with *)
(* 0x00 escaped as 0x00 0xFF, ended by 0x00 0x01; an int64 is one          *)
(* fixed-width digit with the sign bit flipped; Rev inverts every bit of   *)
(* the encoding of its argument.                                           *)
(***************************************************************************)
\* A string field encoded without the escape of its 0x00 bytes.
RECURSIVE EncodeStringRaw(_)
EncodeStringRaw(s) ==
    IF s = << >> THEN <<0, 1>> ELSE <<Head(s)>> \o EncodeStringRaw(Tail(s))

RECURSIVE EncodeString(_)
EncodeString(s) ==
    IF s = << >> THEN <<0, 1>>
    ELSE (IF Head(s) = 0 THEN <<0, 255>> ELSE <<Head(s)>>) \o EncodeString(Tail(s))

EncodeInt(v) == << v + 2 ^ (IntBits - 1) >>

\* ordered.Rev leaving the encoding as it is.
RevNone(enc) == enc

Rev(enc) == [i \in 1..Len(enc) |-> (2 ^ IntBits - 1) - enc[i]]

\* bytes.Compare(a, b) < 0
RECURSIVE LessFrom(_, _, _)
LessFrom(a, b, i) ==
    IF i > Len(b) THEN FALSE
    ELSE IF i > Len(a) THEN TRUE
    ELSE IF a[i] = b[i] THEN LessFrom(a, b, i + 1)
    ELSE a[i] < b[i]

Less(a, b) == LessFrom(a, b, 1)

\* Decoding of one string field of key k starting at position i.
RECURSIVE DecodeString(_, _, _)
DecodeString(k, i, acc) ==
    IF i + 1 > Len(k) THEN [ok |-> FALSE, val |-> acc, next |-> i]
    ELSE IF k[i] # 0 THEN DecodeString(k, i + 1, Append(acc, k[i]))
    ELSE IF k[i + 1] = 1 THEN [ok |-> TRUE, val |-> acc, next |-> i + 2]
    ELSE IF k[i + 1] = 255 THEN DecodeString(k, i + 2, Append(acc, 0))
    ELSE [ok |-> FALSE, val |-> acc, next |-> i]

artifactKey(appName, userID, sessionID, fileName, version) ==
    [AppName |-> appName, UserID |-> userID, SessionID |-> sessionID,
     FileName |-> fileName, Version |-> version]

\* Encode with ordered.Rev left out.
EncodeNoRev(ak) ==
    EncodeString(ak.AppName) \o EncodeString(ak.UserID) \o
    EncodeString(ak.SessionID) \o EncodeString(ak.FileName) \o
    EncodeInt(ak.Version)

\* ordered.Encode(AppName, UserID, SessionID, FileName, ordered.Rev(Version))
EncodeBytes(ak) ==
    EncodeString(ak.AppName) \o EncodeString(ak.UserID) \o
    EncodeString(ak.SessionID) \o EncodeString(ak.FileName) \o
    Rev(EncodeInt(ak.Version))

\* The keys the calls of this model encode: those of the requests and the
\* scan bounds built from them.
KeySpace ==
    [AppName : Apps, UserID : Users,
     SessionID : Sessions \cup {s \o <<0>> : s \in Sessions},
     FileName : Files \cup {NoString}, Version : (0 - 1)..MaxInt64]

\* EncodeBytes, computed once for every key of KeySpace.
EncodeTable == [ak \in KeySpace |-> EncodeBytes(ak)]

\* artifactKey.Encode
Encode(ak) == EncodeTable[ak]

\* The encoded keys of KeySpace, and for each how many of them sort before it.
KeyBytes == {EncodeTable[ak] : ak \in KeySpace}

RankTable == [k \in KeyBytes |-> Cardinality({j \in KeyBytes : Less(j, k)})]

\* a <= b in the order of the map (Go string comparison)
LessEq(a, b) == RankTable[a] <= RankTable[b]

\* artifactKey.Decode: [ok, key]; fails unless the whole input is consumed.
Decode(k) ==
    LET a == DecodeString(k, 1, << >>)
        u == DecodeString(k, a.next, << >>)
        s == DecodeString(k, u.next, << >>)
        f == DecodeString(k, s.next, << >>)
        bad == [ok |-> FALSE, key |-> artifactKey(<< >>, << >>, << >>, << >>, 0)]
    IN  IF ~a.ok THEN bad
        ELSE IF ~u.ok THEN bad
        ELSE IF ~s.ok THEN bad
        ELSE IF ~f.ok THEN bad
        ELSE IF f.next # Len(k) THEN bad
        ELSE [ok |-> TRUE,
              key |-> artifactKey(a.val, u.val, s.val, f.val,
                                  ((2 ^ IntBits - 1) - k[f.next]) - 2 ^ (IntBits - 1))]


(***************************************************************************)
(* omap.Map: Scan, Get, Set, Delete, DeleteRange.  The map is a function   *)
(* from encoded keys to parts; its order is the order of the keys.         *)
(***************************************************************************)
\* The keys of S in ascending order.
RECURSIVE SortKeys(_)
SortKeys(S) ==
    IF S = {} THEN << >>
    ELSE LET m == CHOOSE k \in S : \A j \in S : LessEq(k, j)
         IN  <<m>> \o SortKeys(S \ {m})

InRange(k, lo, hi) == LessEq(lo, k) /\ LessEq(k, hi)

\* omap.Scan(lo, hi): the keys with lo <= key <= hi, ascending.
MapScan(m, lo, hi) == SortKeys({k \in DOMAIN m : InRange(k, lo, hi)})

MapSet(m, k, v) == [x \in (DOMAIN m) \cup {k} |-> IF x = k THEN v ELSE m[x]]

MapDelete(m, k) == [x \in (DOMAIN m) \ {k} |-> m[x]]

MapDeleteRange(m, lo, hi) == [x \in {k \in DOMAIN m : ~InRange(k, lo, hi)} |-> m[x]]

EmptyMap == [x \in {} |-> NilPart]

(***************************************************************************)
(* inMemoryService: the helpers over the map.                              *)
(***************************************************************************)
\* The loop of scan over the keys ks: each key is decoded, a key that does
\* not decode is skipped, the others are yielded with their parts.
Yielded(m, ks) ==
    LET ds == [i \in 1..Len(ks) |-> [d |-> Decode(ks[i]), val |-> m[ks[i]]]]
        ok == SelectSeq(ds, LAMBDA x : x.d.ok)
    IN  [i \in 1..Len(ok) |-> [key |-> ok[i].d.key, val |-> ok[i].val]]

\* scan: the decoded (key, part) pairs with lo <= key <= hi, in key order.
scan(m, lo, hi) == Yielded(m, MapScan(m, lo, hi))

\* find returning the last pair of the scan instead of the first.
LastOf(s) ==
    IF Len(s) > 0
    THEN [ok |-> TRUE, version |-> s[Len(s)].key.Version, part |-> s[Len(s)].val]
    ELSE [ok |-> FALSE, version |-> 0, part |-> NilPart]

\* The loop of find: it returns at the first pair of the scan.
FirstOf(s) ==
    IF Len(s) > 0
    THEN [ok |-> TRUE, version |-> s[1].key.Version, part |-> s[1].val]
    ELSE [ok |-> FALSE, version |-> 0, part |-> NilPart]

find(m, appName, userID, sessionID, fileName) ==
    FirstOf(scan(m, Encode(artifactKey(appName, userID, sessionID, fileName, MaxInt64)),
                    Encode(artifactKey(appName, userID, sessionID, fileName, 0))))

\* omap.Get
MapGet(m, key) ==
    IF key \in DOMAIN m THEN [ok |-> TRUE, part |-> m[key]]
    ELSE [ok |-> FALSE, part |-> NilPart]

\* get reading the key of the version before the one asked for.
getBefore(m, appName, userID, sessionID, fileName, version) ==
    MapGet(m, Encode(artifactKey(appName, userID, sessionID, fileName, version - 1)))

get(m, appName, userID, sessionID, fileName, version) ==
    MapGet(m, Encode(artifactKey(appName, userID, sessionID, fileName, version)))

\* set writing every part at version 1 of the file.
setFirst(m, appName, userID, sessionID, fileName, version, artifact) ==
    MapSet(m, Encode(artifactKey(appName, userID, sessionID, fileName, 1)), artifact)

set(m, appName, userID, sessionID, fileName, version, artifact) ==
    MapSet(m, Encode(artifactKey(appName, userID, sessionID, fileName, version)), artifact)

\* delete removing the whole range of the file instead of one key.
deleteFile(m, appName, userID, sessionID, fileName, version) ==
    MapDeleteRange(m, Encode(artifactKey(appName, userID, sessionID, fileName, MaxInt64)),
                      Encode(artifactKey(appName, userID, sessionID, fileName, 0)))

delete(m, appName, userID, sessionID, fileName, version) ==
    MapDelete(m, Encode(artifactKey(appName, userID, sessionID, fileName, version)))

\* int64 addition wraps around.
Int64(x) == IF x > MaxInt64 THEN x - 2 ^ IntBits ELSE x

(***************************************************************************)
(* The five operations as functions of the map and the request.  Each      *)
(* yields the map afterwards and the response: err is "ok", "invalid"      *)
(* (the missing-required-fields error) or "notfound" (fs.ErrNotExist).     *)
(***************************************************************************)
Response(m, err, val) == [store |-> m, err |-> err, val |-> val]

\* The check of the required fields without the file name.
MissingFieldsNoFile(req) ==
    req.AppName = NoString \/ req.UserID = NoString \/ req.SessionID = NoString

MissingFields(req) ==
    req.AppName = NoString \/ req.UserID = NoString \/
    req.SessionID = NoString \/ req.FileName = NoString

\* The check of Save without the test for a nil part.
MissingFieldsOnly(req) == MissingFields(req)

MissingSaveFields(req) == MissingFields(req) \/ req.Part = NilPart

MissingListFields(req) ==
    req.AppName = NoString \/ req.UserID = NoString \/ req.SessionID = NoString

\* nextVersion without the increment.
NextVersionSame(f) == IF f.ok THEN f.version ELSE 1

\* nextVersion starting at 0 for a file without versions.
NextVersionFromZero(f) == IF f.ok THEN Int64(f.version + 1) ELSE 0

\* nextVersion of Save, from what find returned.
NextVersion(f) == IF f.ok THEN Int64(f.version + 1) ELSE 1

SaveAs(m, req, nextVersion) ==
    Response(set(m, req.AppName, req.UserID, req.SessionID, req.FileName,
                 nextVersion, req.Part),
             "ok", nextVersion)

Save(m, req) ==
    IF MissingSaveFields(req) THEN Response(m, "invalid", 0)
    ELSE SaveAs(m, req, NextVersion(find(m, req.AppName, req.UserID, req.SessionID,
                                         req.FileName)))

\* Delete without version removing only the latest version.
DeleteLatestOnly(m, req) ==
    IF MissingFields(req) THEN Response(m, "invalid", 0)
    ELSE IF req.Version # 0
    THEN Response(delete(m, req.AppName, req.UserID, req.SessionID, req.FileName,
                         req.Version), "ok", 0)
    ELSE Response(delete(m, req.AppName, req.UserID, req.SessionID, req.FileName,
                         find(m, req.AppName, req.UserID, req.SessionID,
                              req.FileName).version), "ok", 0)

\* Delete reporting not-found when the key it is to delete is absent.
DeleteStrict(m, req) ==
    IF MissingFields(req) THEN Response(m, "invalid", 0)
    ELSE IF req.Version # 0
    THEN IF get(m, req.AppName, req.UserID, req.SessionID, req.FileName, req.Version).ok
         THEN Response(delete(m, req.AppName, req.UserID, req.SessionID, req.FileName,
                              req.Version), "ok", 0)
         ELSE Response(m, "notfound", 0)
    ELSE Response(MapDeleteRange(m,
                      Encode(artifactKey(req.AppName, req.UserID, req.SessionID,
                                         req.FileName, MaxInt64)),
                      Encode(artifactKey(req.AppName, req.UserID, req.SessionID,
                                         req.FileName, 0))),
                  "ok", 0)

\* Delete without version removing the range of the whole session.
DeleteSession(m, req) ==
    IF MissingFields(req) THEN Response(m, "invalid", 0)
    ELSE IF req.Version # 0
    THEN Response(delete(m, req.AppName, req.UserID, req.SessionID, req.FileName,
                         req.Version), "ok", 0)
    ELSE Response(MapDeleteRange(m,
                      Encode(artifactKey(req.AppName, req.UserID, req.SessionID,
                                         NoString, 0)),
                      Encode(artifactKey(req.AppName, req.UserID,
                                         req.SessionID \o <<0>>, NoString, 0))),
                  "ok", 0)

Delete(m, req) ==
    IF MissingFields(req) THEN Response(m, "invalid", 0)
    ELSE IF req.Version # 0
    THEN Response(delete(m, req.AppName, req.UserID, req.SessionID, req.FileName,
                         req.Version), "ok", 0)
    ELSE Response(MapDeleteRange(m,
                      Encode(artifactKey(req.AppName, req.UserID, req.SessionID,
                                         req.FileName, MaxInt64)),
                      Encode(artifactKey(req.AppName, req.UserID, req.SessionID,
                                         req.FileName, 0))),
                  "ok", 0)

\* The end of both branches of Load: not found, or the part.
Loaded(m, g) ==
    IF ~g.ok THEN Response(m, "notfound", NilPart) ELSE Response(m, "ok", g.part)

Load(m, req) ==
    IF MissingFields(req) THEN Response(m, "invalid", NilPart)
    ELSE IF req.Version > 0
    THEN Loaded(m, get(m, req.AppName, req.UserID, req.SessionID, req.FileName,
                       req.Version))
    ELSE Loaded(m, find(m, req.AppName, req.UserID, req.SessionID, req.FileName))

\* The loop of List: the keys of the files map it builds from the scan s.
FileNamesOf(s, sessionID) ==
    {s[i].key.FileName : i \in {j \in 1..Len(s) : s[j].key.SessionID = sessionID}}

\* List with the session itself, not the session followed by NUL, as the
\* upper bound of its scan.
ListFilesNarrow(m, req) ==
    FileNamesOf(scan(m, Encode(artifactKey(req.AppName, req.UserID, req.SessionID,
                                           NoString, 0)),
                        Encode(artifactKey(req.AppName, req.UserID, req.SessionID,
                                           NoString, 0))),
                req.SessionID)

ListFiles(m, req) ==
    FileNamesOf(scan(m, Encode(artifactKey(req.AppName, req.UserID, req.SessionID,
                                           NoString, 0)),
                        Encode(artifactKey(req.AppName, req.UserID,
                                           req.SessionID \o <<0>>, NoString, 0))),
                req.SessionID)

\* The orders in which slices.Collect(maps.Keys(files)) can yield the set S.
Collect(S) ==
    {q \in [1..Cardinality(S) -> S] : \A x \in S : \E i \in DOMAIN q : q[i] = x}

\* List: every response the call can give (map iteration order is not fixed).
List(m, req) ==
    IF MissingListFields(req) THEN {Response(m, "invalid", << >>)}
    ELSE {Response(m, "ok", q) : q \in Collect(ListFiles(m, req))}

\* Versions without the test for an empty list.
VersionsOfAny(m, s) == Response(m, "ok", [i \in 1..Len(s) |-> s[i].key.Version])

\* The loop of Versions and its end.
VersionsOf(m, s) ==
    IF Len(s) = 0 THEN Response(m, "notfound", << >>)
    ELSE Response(m, "ok", [i \in 1..Len(s) |-> s[i].key.Version])

Versions(m, req) ==
    IF MissingFields(req) THEN Response(m, "invalid", << >>)
    ELSE VersionsOf(m, scan(m, Encode(artifactKey(req.AppName, req.UserID,
                                                  req.SessionID, req.FileName, MaxInt64)),
                               Encode(artifactKey(req.AppName, req.UserID,
                                                  req.SessionID, req.FileName, 0))))

(***************************************************************************)
(* What the map holds, read off its keys without any scan.                 *)
(***************************************************************************)
SameFile(key, req) ==
    /\ key.AppName = req.AppName /\ key.UserID = req.UserID
    /\ key.SessionID = req.SessionID /\ key.FileName = req.FileName

\* The keys of the records of m, decoded.
StoredKeys(m) == {Decode(k).key : k \in DOMAIN m}

\* The version numbers stored in m for the file req names.
StoredVersions(m, req) == {d.Version : d \in {x \in StoredKeys(m) : SameFile(x, req)}}

\* The part stored in m at version v of the file req names.
StoredPart(m, req, v) ==
    m[CHOOSE k \in DOMAIN m : SameFile(Decode(k).key, req) /\ Decode(k).key.Version = v]

Max(S) == CHOOSE x \in S : \A y \in S : y <= x

(***************************************************************************)
(* The calls.                                                              *)
(***************************************************************************)
RequiredFields == {"AppName", "UserID", "SessionID", "FileName"}

FileRequest(id, version) ==
    [AppName |-> id.AppName, UserID |-> id.UserID, SessionID |-> id.SessionID,
     FileName |-> id.FileName, Version |-> version]

SaveRequest(id, part, version) ==
    [AppName |-> id.AppName, UserID |-> id.UserID, SessionID |-> id.SessionID,
     FileName |-> id.FileName, Part |-> part, Version |-> version]

ListRequest(id) ==
    [AppName |-> id.AppName, UserID |-> id.UserID, SessionID |-> id.SessionID]

FirstId == CHOOSE id \in FileIds : id.SessionID = <<115>> /\ id.FileName = <<102>>

\* Every valid request, one request for each required field left empty and,
\* for Save, one without a part.  The explicit versions are those of Saves of
\* the first file, and of Loads and Deletes of the files of its session.
SaveRequests ==
    {SaveRequest(id, p, 0) : id \in FileIds, p \in Parts}
        \cup {SaveRequest(FirstId, p, 2) : p \in Parts}
        \cup {[SaveRequest(FirstId, "P1", 0) EXCEPT ![f] = NoString] : f \in RequiredFields}
        \cup {SaveRequest(FirstId, NilPart, 0)}

FileRequests ==
    {FileRequest(id, 0) : id \in FileIds}
        \cup {FileRequest(id, v) : id \in {x \in FileIds : x.SessionID = FirstId.SessionID},
                                   v \in ReqVersions}
        \cup {[FileRequest(FirstId, 0) EXCEPT ![f] = NoString] : f \in RequiredFields}

ListRequests ==
    {ListRequest(id) : id \in FileIds}
        \cup {[ListRequest(FirstId) EXCEPT ![f] = NoString] :
                  f \in RequiredFields \ {"FileName"}}

VersionsRequests == {r \in FileRequests : r.Version = 0}

\* For a Save without explicit version: how many such Saves of this file in
\* a row this one completes, counted from a Save that found the file without
\* versions (0: the row did not start so).  pre: the versions the file had.
Run(req, r, pre) ==
    IF r.err # "ok" \/ req.Version # 0 THEN 0
    ELSE IF pre = {} THEN 1
    ELSE IF last.op = "Save" /\ last.run > 0 /\ SameFile(last.req, req) THEN last.run + 1
    ELSE 0

\* For a Save that follows a Delete of the same file: the versions that
\* Delete removed; empty for every other call.
Freed(op, req) ==
    IF op = "Save" /\ last.op = "Delete" /\ last.err = "ok" /\ SameFile(last.req, req)
    THEN last.pre \ StoredVersions(artifacts, req)
    ELSE {}

\* No Save of a file since the last Delete of it.
NoSave == [version |-> 0, part |-> NilPart]

\* For each file of which the Saves are recorded, the version and the part
\* of the Save that returned last with no Save or Delete of the same file
\* since; NoSave without such a Save.
Saved(op, req, r) ==
    IF r.err # "ok" \/ op \notin {"Save", "Delete"} THEN last.saved
    ELSE [id \in DOMAIN last.saved |->
              IF ~SameFile(id, req) THEN last.saved[id]
              ELSE IF op = "Save" THEN [version |-> r.val, part |-> req.Part]
              ELSE NoSave]

\* A call returns r: the map becomes r.store and the call is recorded.
\* pre: the versions the file of a Save or Delete had when the call began.
Return(op, req, r, pre, run) ==
    /\ artifacts' = r.store
    /\ last' = [op |-> op, req |-> req, err |-> r.err, val |-> r.val,
                pre |-> pre, run |-> run, freed |-> Freed(op, req),
                saved |-> Saved(op, req, r)]
    /\ UNCHANGED << mu, pc, call, assigned, started >>

SaveReturn(req, r, pre) ==
    /\ r.err = "ok" => r.val <= MaxVersion /\ Cardinality(DOMAIN artifacts) < MaxRecords
    /\ Return("Save", req, r, pre, Run(req, r, pre))

\* A goroutine that is in no call.
\* version, part, names, versions: what Save, Load, List, Versions respond.
\* at, files: the last key a scan yielded and the files map of List.
\* snap: the map as the last completed write left it when the body began.
NoCall ==
    [op |-> "none", req |-> ListRequest(FirstId), err |-> "ok", next |-> 0,
     version |-> 0, part |-> NilPart, names |-> << >>, versions |-> << >>,
     at |-> << >>, files |-> {}, snap |-> EmptyMap]

\* The service as Mem returns it; recorded: the files of which the Saves are
\* recorded.
Fresh(recorded) ==
    /\ artifacts = EmptyMap
    /\ last = [op |-> "Mem", req |-> ListRequest(FirstId), err |-> "ok",
               val |-> 0, pre |-> {}, run |-> 0, freed |-> {},
               saved |-> [id \in recorded |-> NoSave]]
    /\ mu = [w |-> NoProc, readers |-> {}]
    /\ pc = [p \in Procs |-> "idle"]
    /\ call = [p \in Procs |-> NoCall]
    /\ assigned = << >>
    /\ started = 0

Init == Fresh({})

SaveCall ==
    \E req \in SaveRequests :
        SaveReturn(req, Save(artifacts, req), StoredVersions(artifacts, req))

DeleteCall ==
    \E req \in FileRequests :
        Return("Delete", req, Delete(artifacts, req), StoredVersions(artifacts, req), 0)

LoadCall ==
    \E req \in FileRequests : Return("Load", req, Load(artifacts, req), {}, 0)

ListCall ==
    \E req \in ListRequests : \E r \in List(artifacts, req) : Return("List", req, r, {}, 0)

VersionsCall ==
    \E req \in VersionsRequests : Return("Versions", req, Versions(artifacts, req), {}, 0)

Next == SaveCall \/ DeleteCall \/ LoadCall \/ ListCall \/ VersionsCall

Spec == Init /\ [][Next]_vars

\* The calls made one at a time, with the last Save of each file recorded.
TrackInit == Fresh(FileIds)

TrackSpec == TrackInit /\ [][Next]_vars

(***************************************************************************)
(* The calls made concurrently.  A goroutine in a call is at one of:       *)
(*   "lock"    the request is checked, mu.Lock() or mu.RLock() is next     *)
(*   "wait"    blocked inside mu.Lock() or mu.RLock()                      *)
(*   "body"    holds mu, the body of the operation is next                 *)
(*   "set"     Save between find and set                                   *)
(*   "unlock"  the body is done, the deferred Unlock or RUnlock is next    *)
(*   "return"  the call has its response and returns                       *)
(* sync.RWMutex: a writer first excludes the other writers (mu.w), then    *)
(* waits until the readers that hold the lock have released it; a reader   *)
(* that arrives while a writer has announced itself blocks until that      *)
(* writer unlocks, and the writer's Unlock admits every blocked reader.    *)
(***************************************************************************)
\* Save and Delete call mu.Lock(), the others mu.RLock().
\* Delete calling mu.RLock() instead.
IsWriterSaveOnly(op) == op = "Save"

\* Save calling mu.RLock() instead.
IsWriterDeleteOnly(op) == op = "Delete"

IsWriter(op) == op \in {"Save", "Delete"}

\* The check of the required fields each operation begins with.
Invalid(op, req) ==
    IF op = "Save" THEN MissingSaveFields(req)
    ELSE IF op = "List" THEN MissingListFields(req)
    ELSE MissingFields(req)

\* The check made after the lock is taken.
AfterCheckLock(op, req) == "lock"

\* Where a call goes after its check: it returns the error, or goes on to
\* take the lock.
AfterCheck(op, req) == IF Invalid(op, req) THEN "return" ELSE "lock"

\* A return on not-found that skips the Unlock.
AfterBodyEarlyReturn(r) == IF r.err = "notfound" THEN "return" ELSE "unlock"

\* Where a call goes after its body: the Unlock is deferred, so every return
\* path runs it.
AfterBody(r) == "unlock"

\* The concurrent calls: for each operation a valid request on one file and
\* a request that fails the check.
ConcCalls ==
    {[op |-> "Save", req |-> SaveRequest(FirstId, part, 0)] : part \in Parts \cup {NilPart}}
        \cup {[op |-> o, req |-> FileRequest(FirstId, 0)] : o \in {"Load", "Delete", "Versions"}}
        \cup {[op |-> o, req |-> [FileRequest(FirstId, 0) EXCEPT !.FileName = NoString]] :
                  o \in {"Load", "Delete", "Versions"}}
        \cup {[op |-> "List", req |-> ListRequest(FirstId)],
              [op |-> "List", req |-> [ListRequest(FirstId) EXCEPT !.UserID = NoString]]}

\* The maps the concurrent calls can leave: versions 1..MaxRecords of the one
\* file, each with any part.
ConcKeys == {Encode(FileRequest(FirstId, v)) : v \in 1..MaxRecords}

ConcStores == UNION {[K -> Parts] : K \in SUBSET ConcKeys}

\* find, Load, List and Versions of the valid concurrent requests on map m.
AnswersOf(m) ==
    [find |-> find(m, FirstId.AppName, FirstId.UserID, FirstId.SessionID,
                   FirstId.FileName),
     Load |-> Load(m, FileRequest(FirstId, 0)),
     List |-> List(m, ListRequest(FirstId)),
     Versions |-> Versions(m, FileRequest(FirstId, 0))]

\* AnswersOf, computed once for every map of S.
RECURSIVE AnswersTable(_)
AnswersTable(S) ==
    IF S = {} THEN << >>
    ELSE LET m == CHOOSE x \in S : TRUE
         IN  (m :> AnswersOf(m)) @@ AnswersTable(S \ {m})

Answers == AnswersTable(ConcStores)

\* The Saves that are past their check and have not written yet.
SavesInFlight ==
    {q \in Procs : call[q].op = "Save" /\ pc[q] \in {"lock", "wait", "body", "set"}}

\* The readers blocked in mu.RLock().
BlockedReaders == {q \in Procs : pc[q] = "wait" /\ ~IsWriter(call[q].op)}

\* Whether goroutine p holds mu.
Holds(p) == pc[p] \in {"body", "set", "scan", "range", "unlock"}

Goto(p, label) == pc' = [pc EXCEPT ![p] = label]

\* The field of the call record that holds the response of an operation.
ResponseField(op) ==
    CASE op = "Load" -> "part"
      [] op = "List" -> "names"
      [] op = "Versions" -> "versions"
      [] OTHER -> "version"

Respond(p, r) ==
    call' = [call EXCEPT ![p].err = r.err, ![p][ResponseField(call[p].op)] = r.val]

\* The call begins and checks its request.
Begin(p, c, label) ==
    /\ (c.op = "Save" /\ label # "return") =>
           Cardinality(DOMAIN artifacts) + Cardinality(SavesInFlight) < MaxRecords
    /\ Goto(p, label)
    /\ call' = [call EXCEPT ![p] = [NoCall EXCEPT !.op = c.op, !.req = c.req,
                                                  !.err = IF label = "return"
                                                          THEN "invalid" ELSE "pending"]]
    /\ started' = started + 1
    /\ UNCHANGED << artifacts, last, mu, assigned >>

Invoke(p) ==
    /\ pc[p] = "idle" /\ started < MaxCalls
    /\ \E c \in ConcCalls : Begin(p, c, AfterCheck(c.op, c.req))

\* mu.RLock() letting the reader in past a writer.
ReadersAdmittedAlways == TRUE

\* mu.RLock() lets a reader in unless a writer holds mu or waits for it.
ReadersAdmitted == mu.w = NoProc

\* mu.RLock()
AcquireRead(p) ==
    /\ pc[p] = "lock" /\ ~IsWriter(call[p].op)
    /\ IF ReadersAdmitted
       THEN mu' = [mu EXCEPT !.readers = @ \cup {p}] /\ Goto(p, "body")
       ELSE mu' = mu /\ Goto(p, "wait")
    /\ UNCHANGED << artifacts, last, call, assigned, started >>

\* mu.Lock(): the writer excludes the other writers and announces itself.
AcquireWrite(p) ==
    /\ pc[p] = "lock" /\ IsWriter(call[p].op)
    /\ mu.w = NoProc
    /\ mu' = [mu EXCEPT !.w = p]
    /\ Goto(p, IF mu.readers = {} THEN "body" ELSE "wait")
    /\ UNCHANGED << artifacts, last, call, assigned, started >>

\* Save: nextVersion from find.
SaveFind(p) ==
    /\ pc[p] = "body" /\ call[p].op = "Save"
    /\ call' = [call EXCEPT ![p].next = NextVersion(Answers[artifacts].find)]
    /\ Goto(p, "set")
    /\ UNCHANGED << artifacts, last, mu, assigned, started >>

Written(p, r) ==
    /\ artifacts' = r.store
    /\ Respond(p, r)
    /\ assigned' = Append(assigned, [version |-> r.val, part |-> call[p].req.Part])
    /\ Goto(p, AfterBody(r))
    /\ UNCHANGED << last, mu, started >>

\* Save: set and the response.
SaveSet(p) ==
    /\ pc[p] = "set"
    /\ Written(p, SaveAs(artifacts, call[p].req, call[p].next))

Deleted(p, r) ==
    /\ artifacts' = r.store
    /\ Respond(p, r)
    /\ assigned' = SelectSeq(assigned,
                             LAMBDA e : e.version \in StoredVersions(r.store, call[p].req))
    /\ Goto(p, AfterBody(r))
    /\ UNCHANGED << last, mu, started >>

DeleteBody(p) ==
    /\ pc[p] = "body" /\ call[p].op = "Delete"
    /\ Deleted(p, Delete(artifacts, call[p].req))

Read(p, r) ==
    /\ Respond(p, r)
    /\ Goto(p, AfterBody(r))
    /\ UNCHANGED << artifacts, last, mu, assigned, started >>

LoadBody(p) ==
    /\ pc[p] = "body" /\ call[p].op = "Load"
    /\ Read(p, Answers[artifacts].Load)

ListBody(p) ==
    /\ pc[p] = "body" /\ call[p].op = "List"
    /\ \E r \in Answers[artifacts].List : Read(p, r)

VersionsBody(p) ==
    /\ pc[p] = "body" /\ call[p].op = "Versions"
    /\ Read(p, Answers[artifacts].Versions)

\* The deferred mu.Unlock(): the writer leaves and the readers blocked
\* behind it hold the lock.
Unlock(p) ==
    /\ pc[p] = "unlock" /\ mu.w = p
    /\ mu' = [w |-> NoProc, readers |-> BlockedReaders]
    /\ pc' = [q \in Procs |-> IF q = p THEN "return"
                              ELSE IF q \in BlockedReaders THEN "body" ELSE pc[q]]
    /\ UNCHANGED << artifacts, last, call, assigned, started >>

\* The deferred mu.RUnlock(): the last reader to leave lets the writer that
\* waits in mu.Lock() go on.
RUnlock(p) ==
    /\ pc[p] = "unlock" /\ p \in mu.readers
    /\ mu' = [mu EXCEPT !.readers = @ \ {p}]
    /\ pc' = [q \in Procs |-> IF q = p THEN "return"
                              ELSE IF q = mu.w /\ mu.readers = {p} THEN "body" ELSE pc[q]]
    /\ UNCHANGED << artifacts, last, call, assigned, started >>

\* The call returns to its caller.
Finish(p) ==
    /\ pc[p] = "return"
    /\ Goto(p, "idle")
    /\ call' = [call EXCEPT ![p] = NoCall]
    /\ UNCHANGED << artifacts, last, mu, assigned, started >>

\* The steps of goroutine p inside a call.
Step(p) ==
    \/ AcquireRead(p) \/ AcquireWrite(p)
    \/ SaveFind(p) \/ SaveSet(p) \/ DeleteBody(p)
    \/ LoadBody(p) \/ ListBody(p) \/ VersionsBody(p)
    \/ Unlock(p) \/ RUnlock(p) \/ Finish(p)

ConcNext == \E p \in Procs : Invoke(p) \/ Step(p)

ConcSpec == Init /\ [][ConcNext]_vars

\* The scheduler runs every goroutine that can take a step.
FairSpec == ConcSpec /\ \A p \in Procs : WF_vars(Step(p))

(***************************************************************************)
(* The concurrent calls with the scans and DeleteRange taken one record at *)
(* a time.  Two more positions of a goroutine:                             *)
(*   "scan"   List or Versions inside the loop over s.scan(lo, hi)         *)
(*   "range"  Delete inside artifacts.DeleteRange(lo, hi)                  *)
(* The calls begin on a map that earlier Saves filled.                     *)
(***************************************************************************)
\* The valid concurrent calls: Delete is without version.
ScanCalls == {c \in ConcCalls : ~Invalid(c.op, c.req) /\ c.req \notin
                  {SaveRequest(FirstId, part, 0) : part \in Parts \ {"P1"}}}

\* The maps that Saves of the first file leave: versions 1..n.
SavedStores ==
    {[k \in {Encode(FileRequest(FirstId, v)) : v \in 1..n} |-> "P2"] : n \in 0..MaxRecords}

ScanInit ==
    /\ artifacts \in SavedStores
    /\ last = [op |-> "Mem", req |-> ListRequest(FirstId), err |-> "ok",
               val |-> 0, pre |-> {}, run |-> 0, freed |-> {},
               saved |-> [id \in {} |-> NoSave]]
    /\ mu = [w |-> NoProc, readers |-> {}]
    /\ pc = [p \in Procs |-> "idle"]
    /\ call = [p \in Procs |-> NoCall]
    /\ assigned = << >>
    /\ started = 0

ScanInvoke(p) ==
    /\ pc[p] = "idle" /\ started < MaxCalls
    /\ \E c \in ScanCalls : Begin(p, c, AfterCheck(c.op, c.req))

\* The map as the last completed write left it: the map itself, or the map
\* a Delete found when a DeleteRange is under way.
Committed ==
    IF \E w \in Procs : pc[w] = "range"
    THEN call[CHOOSE w \in Procs : pc[w] = "range"].snap
    ELSE artifacts

\* The bounds lo and hi of the scan of List and of the range of find,
\* Versions and Delete.
Lo(op, req) ==
    IF op = "List"
    THEN Encode(artifactKey(req.AppName, req.UserID, req.SessionID, NoString, 0))
    ELSE Encode(artifactKey(req.AppName, req.UserID, req.SessionID, req.FileName,
                            MaxInt64))

Hi(op, req) ==
    IF op = "List"
    THEN Encode(artifactKey(req.AppName, req.UserID, req.SessionID \o <<0>>,
                            NoString, 0))
    ELSE Encode(artifactKey(req.AppName, req.UserID, req.SessionID, req.FileName, 0))

\* The keys of the map between lo and hi that come after the key at.
Ahead(lo, hi, at) ==
    {k \in DOMAIN artifacts :
         InRange(k, lo, hi) /\ (at = << >> \/ (k # at /\ LessEq(at, k)))}

\* Delete without version: DeleteRange begins.
DeleteBegin(p) ==
    /\ pc[p] = "body" /\ call[p].op = "Delete" /\ call[p].req.Version = 0
    /\ call' = [call EXCEPT ![p].snap = artifacts]
    /\ Goto(p, "range")
    /\ UNCHANGED << artifacts, last, mu, assigned, started >>

\* DeleteRange removes one record of the range.
DeleteOne(p) ==
    /\ pc[p] = "range"
    /\ \E k \in Ahead(Lo("Delete", call[p].req), Hi("Delete", call[p].req), << >>) :
           artifacts' = MapDelete(artifacts, k)
    /\ UNCHANGED << last, mu, pc, call, assigned, started >>

\* DeleteRange has removed the range; Delete returns nil.
DeleteEnd(p) ==
    /\ pc[p] = "range"
    /\ Ahead(Lo("Delete", call[p].req), Hi("Delete", call[p].req), << >>) = {}
    /\ Deleted(p, Response(artifacts, "ok", 0))

\* Load: find or get reads one record.
LoadRecord(p) ==
    /\ pc[p] = "body" /\ call[p].op = "Load"
    /\ call' = [call EXCEPT ![p].snap = Committed,
                            ![p].err = Answers[artifacts].Load.err,
                            ![p].part = Answers[artifacts].Load.val]
    /\ Goto(p, AfterBody(Answers[artifacts].Load))
    /\ UNCHANGED << artifacts, last, mu, assigned, started >>

\* List and Versions: the loop over the scan begins.
ScanBegin(p) ==
    /\ pc[p] = "body" /\ call[p].op \in {"List", "Versions"}
    /\ call' = [call EXCEPT ![p].snap = Committed]
    /\ Goto(p, "scan")
    /\ UNCHANGED << artifacts, last, mu, assigned, started >>

\* One turn of the loop: the record at key k is decoded and yielded.
Yield(p, k, d) ==
    /\ call' = [call EXCEPT
                    ![p].at = k,
                    ![p].versions = IF call[p].op = "Versions" /\ d.ok
                                    THEN Append(@, d.key.Version) ELSE @,
                    ![p].files = IF /\ call[p].op = "List" /\ d.ok
                                    /\ d.key.SessionID = call[p].req.SessionID
                                 THEN @ \cup {d.key.FileName} ELSE @]
    /\ UNCHANGED << artifacts, last, mu, pc, assigned, started >>

\* The first of the keys of S in the order of the map.
Least(S) == CHOOSE k \in S : \A j \in S : LessEq(k, j)

ScanOn(p, ahead) ==
    /\ ahead # {}
    /\ Yield(p, Least(ahead), Decode(Least(ahead)))

ScanYield(p) ==
    /\ pc[p] = "scan"
    /\ ScanOn(p, Ahead(Lo(call[p].op, call[p].req), Hi(call[p].op, call[p].req),
                       call[p].at))

\* The loop is over: List collects the names, Versions tests for no version.
ScanEnd(p) ==
    /\ pc[p] = "scan"
    /\ Ahead(Lo(call[p].op, call[p].req), Hi(call[p].op, call[p].req), call[p].at) = {}
    /\ IF call[p].op = "List"
       THEN \E q \in Collect(call[p].files) : Read(p, Response(artifacts, "ok", q))
       ELSE Read(p, IF Len(call[p].versions) = 0
                    THEN Response(artifacts, "notfound", << >>)
                    ELSE Response(artifacts, "ok", call[p].versions))

ScanStep(p) ==
    \/ AcquireRead(p) \/ AcquireWrite(p)
    \/ SaveFind(p) \/ SaveSet(p)
    \/ DeleteBegin(p) \/ DeleteOne(p) \/ DeleteEnd(p)
    \/ LoadRecord(p) \/ ScanBegin(p) \/ ScanYield(p) \/ ScanEnd(p)
    \/ Unlock(p) \/ RUnlock(p) \/ Finish(p)

ScanNext == \E p \in Procs : ScanInvoke(p) \/ ScanStep(p)

ScanSpec == ScanInit /\ [][ScanNext]_vars

(***************************************************************************)
(* Properties.                                                             *)
(***************************************************************************)
\* The file names stored in m under the session req names.
StoredFiles(m, req) ==
    {d.FileName : d \in {x \in StoredKeys(m) : /\ x.AppName = req.AppName
                                               /\ x.UserID = req.UserID
                                               /\ x.SessionID = req.SessionID}}

Elements(q) == {q[i] : i \in 1..Len(q)}

\* C1: from a file without stored versions, the n-th Save in a row without
\* explicit version returns version n; the first Save of any file returns 1.
C1_AutoVersionsCountUp ==
    (last.op = "Save" /\ last.run > 0) => (last.err = "ok" /\ last.val = last.run)

C1_Witness ==
    /\ last.op = "Save" /\ last.run = 2 /\ last.val = 2
    /\ StoredVersions(artifacts, last.req) = {1, 2}

\* C2: a Save with explicit version v stores the part at exactly version v
\* and returns v; the file then holds the versions it had and v.
C2_ExplicitVersionStored ==
    (last.op = "Save" /\ last.err = "ok" /\ last.req.Version # 0) =>
        /\ last.val = last.req.Version
        /\ StoredVersions(artifacts, last.req) = last.pre \cup {last.req.Version}
        /\ StoredPart(artifacts, last.req, last.req.Version) = last.req.Part

\* What Load without version must answer for file id in map m.
LatestLoaded(m, id, r) ==
    StoredVersions(m, id) # {} =>
        r.err = "ok" /\ r.val = StoredPart(m, id, Max(StoredVersions(m, id)))

\* C3: in every state, Load with version zero of a file with stored versions
\* returns the part stored at the highest of them.
C3_LoadLatest ==
    /\ \A id \in FileIds : LatestLoaded(artifacts, id, Load(artifacts, FileRequest(id, 0)))
    /\ (last.op = "Load" /\ ~MissingFields(last.req) /\ last.req.Version = 0)
            => LatestLoaded(artifacts, last.req, last)

C3_Witness ==
    /\ last.op = "Load" /\ last.req.Version = 0 /\ last.err = "ok"
    /\ StoredVersions(artifacts, last.req) = {1, 2}
    /\ last.val = StoredPart(artifacts, last.req, 2)
    /\ last.val # StoredPart(artifacts, last.req, 1)

\* C4: Load with a non-zero version v returns the part stored at exactly
\* version v, and fails with not-found when no such record exists.
C4_LoadExactVersion ==
    (last.op = "Load" /\ ~MissingFields(last.req) /\ last.req.Version # 0) =>
        IF last.req.Version \in StoredVersions(artifacts, last.req)
        THEN last.err = "ok"
             /\ last.val = StoredPart(artifacts, last.req, last.req.Version)
        ELSE last.err = "notfound"

IsRecord(k, req, v) == SameFile(Decode(k).key, req) /\ Decode(k).key.Version = v

\* C6: Delete with a non-zero version v removes the record at version v of
\* the file and nothing else: every other record keeps its part, and the
\* file's versions are those it had, without v.
C6_DeleteOneVersion ==
    [][(last'.op = "Delete" /\ last'.err = "ok" /\ last'.req.Version # 0) =>
          /\ StoredVersions(artifacts', last'.req)
                = StoredVersions(artifacts, last'.req) \ {last'.req.Version}
          /\ DOMAIN artifacts' \subseteq DOMAIN artifacts
          /\ \A k \in DOMAIN artifacts :
                 ~IsRecord(k, last'.req, last'.req.Version) =>
                     k \in DOMAIN artifacts' /\ artifacts'[k] = artifacts[k]]_vars

C6_Witness ==
    /\ last.op = "Delete" /\ last.err = "ok" /\ last.req.Version = 2
    /\ last.pre = {1, 2}
    /\ StoredVersions(artifacts, last.req) = {1}

\* Whether m holds nothing of what Delete(req) is to remove.
NothingToDelete(m, req) ==
    IF req.Version # 0 THEN req.Version \notin StoredVersions(m, req)
    ELSE StoredVersions(m, req) = {}

\* C7: a Delete with valid identifiers returns no error; when nothing it names
\* is stored it leaves the map unchanged; and the same Delete applied again
\* returns no error and leaves the map as the first left it.
C7_DeleteIdempotent ==
    [][(last'.op = "Delete" /\ ~MissingFields(last'.req)) =>
          /\ last'.err = "ok"
          /\ NothingToDelete(artifacts, last'.req) => artifacts' = artifacts
          /\ Delete(artifacts', last'.req) = Response(artifacts', "ok", 0)]_vars

C7_Witness ==
    /\ last.op = "Delete" /\ last.err = "ok" /\ last.req.Version # 0
    /\ last.pre = {1} /\ last.req.Version = 2
    /\ StoredVersions(artifacts, last.req) = {1}

\* What List must answer for the session req names in map m.
Listed(m, req, r) ==
    /\ r.err = "ok"
    /\ Elements(r.val) = StoredFiles(m, req)
    /\ Len(r.val) = Cardinality(StoredFiles(m, req))

\* C8: in every state, List of a session returns without error each file name
\* that has a stored version in the session, once, and no other name.
C8_ListFiles ==
    /\ \A req \in {q \in ListRequests : ~MissingListFields(q)} :
           \A r \in List(artifacts, req) : Listed(artifacts, req, r)
    /\ (last.op = "List" /\ ~MissingListFields(last.req))
            => Listed(artifacts, last.req, last)

C8_Witness ==
    /\ last.op = "List" /\ last.err = "ok" /\ Len(last.val) = 1
    /\ \E id \in FileIds : /\ id.SessionID = last.req.SessionID
                           /\ id.FileName = last.val[1]
                           /\ StoredVersions(artifacts, id) = {1, 2}

\* What Versions must answer for file id in map m.
VersionsListed(m, id, r) ==
    IF StoredVersions(m, id) = {} THEN r.err = "notfound"
    ELSE /\ r.err = "ok"
         /\ Elements(r.val) = StoredVersions(m, id)
         /\ \A i \in 1..(Len(r.val) - 1) : r.val[i] > r.val[i + 1]

\* C9: in every state, Versions of a file returns the versions stored for it,
\* each once, in strictly descending order, and fails with not-found when
\* there is none.
C9_VersionsDescending ==
    /\ \A id \in FileIds :
           VersionsListed(artifacts, id, Versions(artifacts, FileRequest(id, 0)))
    /\ (last.op = "Versions" /\ ~MissingFields(last.req))
            => VersionsListed(artifacts, last.req, last)

C9_Witness == last.op = "Versions" /\ last.err = "ok" /\ last.val = <<2, 1>>

\* Whether a call of op with request req lacks a required identifier, or, for
\* Save, the part.
LacksRequired(op, req) ==
    \/ \E f \in (IF op = "List" THEN RequiredFields \ {"FileName"} ELSE RequiredFields) :
           req[f] = NoString
    \/ op = "Save" /\ req.Part = NilPart

\* C10: a call that lacks a required identifier, and a Save without part,
\* fails with the invalid-argument error and leaves the map as it was.
C10_InvalidArgument ==
    [][(last'.op \in {"Save", "Delete", "Load", "List", "Versions"}
            /\ LacksRequired(last'.op, last'.req)) =>
          last'.err = "invalid" /\ artifacts' = artifacts]_vars

C10_Witness ==
    /\ last.op = "Save" /\ last.req.Part = NilPart /\ last.err = "invalid"
    /\ Cardinality(DOMAIN artifacts) = 2

\* Whether m holds a record that the Load request req asks for.
LoadMatches(m, req) ==
    IF req.Version # 0 THEN req.Version \in StoredVersions(m, req)
    ELSE StoredVersions(m, req) # {}

\* C11: Load and Versions answer not-found exactly when the identifiers are
\* valid and no record matches the request; a request with a missing field is
\* answered invalid, never not-found; List and Delete never answer not-found.
C11_NotFoundIff ==
    /\ last.op = "Load" =>
           /\ (last.err = "notfound")
                  <=> (~MissingFields(last.req) /\ ~LoadMatches(artifacts, last.req))
           /\ (last.err = "invalid") <=> MissingFields(last.req)
    /\ last.op = "Versions" =>
           /\ (last.err = "notfound")
                  <=> (~MissingFields(last.req) /\ StoredVersions(artifacts, last.req) = {})
           /\ (last.err = "invalid") <=> MissingFields(last.req)
    /\ last.op \in {"List", "Delete"} => last.err # "notfound"

\* The keys with every string field non-empty and a version >= 1.
ValidKeys ==
    {ak \in KeySpace : /\ ak.AppName # NoString /\ ak.UserID # NoString
                       /\ ak.SessionID # NoString /\ ak.FileName # NoString
                       /\ ak.Version >= 1}

\* Decode(Encode(key)) succeeds and yields key, for every valid key.
ValidKeysRoundTrip ==
    \A ak \in ValidKeys : Decode(EncodeBytes(ak)) = [ok |-> TRUE, key |-> ak]

\* C13: Decode(Encode(key)) succeeds and yields key, for every valid key; and
\* every key of the map decodes to a key that encodes to it.
C13_RoundTrip ==
    /\ ValidKeysRoundTrip
    /\ \A k \in DOMAIN artifacts : Decode(k).ok /\ EncodeBytes(Decode(k).key) = k

C13_Witness ==
    \E k \in DOMAIN artifacts :
        /\ Decode(k).ok
        /\ Decode(k).key.SessionID = <<115, 0>> /\ Decode(k).key.Version = 2
        /\ EncodeBytes(Decode(k).key) = k
        /\ Len(k) > Len(EncodeBytes([Decode(k).key EXCEPT !.SessionID = <<115>>]))

\* For one file and versions v1 > v2, the key of v1 is less than the key of v2.
HigherVersionSortsFirst ==
    \A id \in FileIds : \A v1, v2 \in 0..MaxInt64 :
        v1 > v2 => Less(EncodeBytes(FileRequest(id, v1)), EncodeBytes(FileRequest(id, v2)))

\* C14: for one file and versions v1 > v2 the key of v1 sorts strictly before
\* the key of v2, and the first record find sees in its scan from version
\* MaxInt64 to version 0 is the record of the highest stored version.
C14_ReverseOrder ==
    /\ HigherVersionSortsFirst
    /\ \A id \in FileIds :
           StoredVersions(artifacts, id) # {} =>
               /\ find(artifacts, id.AppName, id.UserID, id.SessionID, id.FileName).ok
               /\ find(artifacts, id.AppName, id.UserID, id.SessionID, id.FileName).version
                      = Max(StoredVersions(artifacts, id))

C14_Witness ==
    \E id \in FileIds :
        /\ StoredVersions(artifacts, id) = {1, 2}
        /\ find(artifacts, id.AppName, id.UserID, id.SessionID, id.FileName).version = 2
        /\ Less(EncodeBytes(FileRequest(id, 2)), EncodeBytes(FileRequest(id, 1)))
        /\ MapScan(artifacts, EncodeBytes(FileRequest(id, MaxInt64)),
                   EncodeBytes(FileRequest(id, 0)))[1] = EncodeBytes(FileRequest(id, 2))

\* C15: a Save without explicit version returns 1 plus the highest version
\* the file has in the map when the call begins, 1 when it has none, whatever
\* calls came before: a version a Delete removed is assigned again.
C15_NextFromStore ==
    (last.op = "Save" /\ last.err = "ok" /\ last.req.Version = 0) =>
        /\ last.val = (IF last.pre = {} THEN 1 ELSE Max(last.pre) + 1)
        /\ StoredPart(artifacts, last.req, last.val) = last.req.Part

C15_Witness ==
    /\ last.op = "Save" /\ last.err = "ok" /\ last.req.Version = 0
    /\ last.freed = {2} /\ last.pre = {1} /\ last.val = 2

\* C16: every record of the map has a key that decodes, with non-empty app,
\* user, session and file and a version >= 1, and a part that is not nil.
C16_StoredRecordsValid ==
    \A k \in DOMAIN artifacts :
        /\ Decode(k).ok
        /\ Decode(k).key.AppName # NoString /\ Decode(k).key.UserID # NoString
        /\ Decode(k).key.SessionID # NoString /\ Decode(k).key.FileName # NoString
        /\ Decode(k).key.Version >= 1
        /\ artifacts[k] \in Parts

C16_Witness ==
    /\ Cardinality(DOMAIN artifacts) = 2
    /\ last.op = "Save" /\ last.err = "invalid" /\ last.req.Part = NilPart

\* C17: a Save without explicit version replaces no record: every record of
\* the map before the call is in the map after it with the same part, and the
\* file has exactly one version more.
C17_SaveKeepsRecords ==
    [][(last'.op = "Save" /\ last'.err = "ok" /\ last'.req.Version = 0) =>
          /\ \A k \in DOMAIN artifacts :
                 k \in DOMAIN artifacts' /\ artifacts'[k] = artifacts[k]
          /\ Cardinality(StoredVersions(artifacts', last'.req))
                 = Cardinality(StoredVersions(artifacts, last'.req)) + 1
          /\ Cardinality(DOMAIN artifacts') = Cardinality(DOMAIN artifacts) + 1]_vars

C17_Witness ==
    /\ last.op = "Save" /\ last.err = "ok" /\ last.req.Version = 0
    /\ last.pre = {1} /\ StoredVersions(artifacts, last.req) = {1, 2}
    /\ StoredPart(artifacts, last.req, 1) # last.req.Part

\* Whether the call of goroutine p is a Save or a Delete.
WriterCall(p) == call[p].op \in {"Save", "Delete"}

\* C12: concurrent Saves without explicit version of one file never get the
\* same version and lose no part: the Saves since the last Delete wrote
\* distinct versions, each is in the map with its part, and the map has as
\* many records as there were Saves.
C12_ConcurrentSavesDistinct ==
    /\ \A i, j \in 1..Len(assigned) :
           i # j => assigned[i].version # assigned[j].version
    /\ \A i \in 1..Len(assigned) :
           /\ assigned[i].version \in StoredVersions(artifacts, FirstId)
           /\ StoredPart(artifacts, FirstId, assigned[i].version) = assigned[i].part
    /\ Cardinality(DOMAIN artifacts) = Len(assigned)

C12_Witness ==
    \E p, q \in Procs :
        /\ call[p].op = "Save" /\ call[q].op = "Save"
        /\ pc[p] = "return" /\ pc[q] = "return"
        /\ call[p].version = 1 /\ call[q].version = 2
        /\ call[p].req.Part # call[q].req.Part
        /\ StoredVersions(artifacts, FirstId) = {1, 2}

\* C18: while a Save or a Delete holds mu no other call holds it; a call that
\* holds mu is the writer of mu or one of its readers; and a call that
\* returns, with or without error, holds mu no more.
C18_LockDiscipline ==
    /\ \A p, q \in Procs : (p # q /\ Holds(p) /\ WriterCall(p)) => ~Holds(q)
    /\ \A p \in Procs :
           Holds(p) => IF WriterCall(p) THEN mu.w = p /\ mu.readers = {}
                       ELSE p \in mu.readers
    /\ \A p \in Procs :
           pc[p] \in {"idle", "return"} => mu.w # p /\ p \notin mu.readers

C18_Witness ==
    \E p, q, w \in Procs :
        /\ p # q /\ Holds(p) /\ Holds(q) /\ ~WriterCall(p) /\ ~WriterCall(q)
        /\ WriterCall(w) /\ pc[w] = "wait" /\ mu.w = w

\* C19: with every goroutine scheduled as long as it can take a step, every
\* call that began returns: no call waits for mu for ever.
C19_EveryCallReturns ==
    \A p \in Procs : (pc[p] # "idle") ~> (pc[p] = "idle")

C19_Witness ==
    \E h, w, r \in Procs :
        /\ Holds(h) /\ ~WriterCall(h)
        /\ WriterCall(w) /\ pc[w] = "wait" /\ mu.w = w
        /\ ~WriterCall(r) /\ pc[r] = "wait"

\* C20: a call whose request fails the check returns the error and is never
\* at mu: it neither waits for mu nor holds it, whoever else holds it.
C20_CheckBeforeLock ==
    \A p \in Procs :
        (call[p].op # "none" /\ Invalid(call[p].op, call[p].req)) =>
            /\ pc[p] = "return" /\ call[p].err = "invalid"
            /\ mu.w # p /\ p \notin mu.readers

C20_Witness ==
    \E p, w \in Procs :
        /\ pc[p] = "return" /\ call[p].err = "invalid" /\ call[p].op = "Load"
        /\ WriterCall(w) /\ Holds(w) /\ mu.w = w

\* C21: after a Save that returned version v, and until the next Save or
\* Delete of the same file, a Load of version v and a Load without version
\* return the part that was saved, and Versions returns a list that begins
\* with v: so for the calls made, and for the same calls made now.
C21_ReadYourWrite ==
    /\ last.op \in {"Load", "Versions"} =>
           \A id \in FileIds :
               (SameFile(id, last.req) /\ last.saved[id] # NoSave) =>
                   /\ (last.op = "Load"
                           /\ last.req.Version \in {0, last.saved[id].version}) =>
                          last.err = "ok" /\ last.val = last.saved[id].part
                   /\ last.op = "Versions" =>
                          last.err = "ok" /\ last.val[1] = last.saved[id].version
    /\ \A id \in FileIds :
           last.saved[id] # NoSave =>
               /\ Load(artifacts, FileRequest(id, last.saved[id].version))
                      = Response(artifacts, "ok", last.saved[id].part)
               /\ Load(artifacts, FileRequest(id, 0))
                      = Response(artifacts, "ok", last.saved[id].part)
               /\ Versions(artifacts, FileRequest(id, 0)).err = "ok"
               /\ Versions(artifacts, FileRequest(id, 0)).val[1] = last.saved[id].version

\* A Load of version 1 of the first file returns the part saved at version 1,
\* after a Save of another file with another part came in between.
C21_Witness ==
    /\ last.op = "Load" /\ SameFile(FirstId, last.req) /\ last.req.Version = 1
    /\ last.err = "ok" /\ last.val = "P1"
    /\ last.saved[FirstId] = [version |-> 1, part |-> "P1"]
    /\ \E id \in FileIds : last.saved[id] = [version |-> 1, part |-> "P2"]

\* Every file a valid request can name: each file name in each session.
AllFiles == [AppName : Apps, UserID : Users, SessionID : Sessions, FileName : Files]

\* C22: in every state and for every file named by non-empty identifiers,
\* the three reads agree on whether the file exists: its name is in what List
\* returns for its session exactly when Versions of the file succeeds, and
\* exactly when Load of the file without version succeeds.
C22_ReadsAgreeOnExistence ==
    \A id \in AllFiles :
        /\ Versions(artifacts, FileRequest(id, 0)).err \in {"ok", "notfound"}
        /\ Load(artifacts, FileRequest(id, 0)).err \in {"ok", "notfound"}
        /\ (Versions(artifacts, FileRequest(id, 0)).err = "ok")
               <=> (Load(artifacts, FileRequest(id, 0)).err = "ok")
        /\ \A r \in List(artifacts, ListRequest(id)) :
               /\ r.err = "ok"
               /\ (id.FileName \in Elements(r.val))
                      <=> (Versions(artifacts, FileRequest(id, 0)).err = "ok")

\* Versions answers not-found for the second file of a session while the
\* first file is stored in that session, and in the session named alike.
C22_Witness ==
    /\ last.op = "Versions" /\ last.err = "notfound"
    /\ last.req.SessionID = <<115>> /\ last.req.FileName = <<103>>
    /\ \A id \in AllFiles :
           (id.FileName = <<102>>)
               <=> (id.FileName \in ListFiles(artifacts, ListRequest(id)))
    /\ \A id \in AllFiles :
           (id.FileName = <<102>>) <=> (Load(artifacts, FileRequest(id, 0)).err = "ok")

\* Identifiers of which one is a prefix of another or another followed by NUL.
Names == { <<97>>, <<97, 0>>, <<97, 97>> }

\* The files these identifiers name, in any combination.
NamedFiles == [AppName : Names, UserID : Names, SessionID : Names, FileName : Names]

\* lo <= k <= hi in the order of the map.
Within(k, lo, hi) == ~Less(k, lo) /\ ~Less(hi, k)

\* Whether x and y are files of one session.
SameSession(x, y) ==
    x.AppName = y.AppName /\ x.UserID = y.UserID /\ x.SessionID = y.SessionID

\* For two different files x and y: no key of y is a key of x or lies in the
\* range of x that find, Versions and Delete take; and a key of y that lies
\* in the range List scans for the session of x, when y is of another
\* session, has another session identifier, so that List drops it.
RangesApart ==
    \A x, y \in NamedFiles :
        x # y =>
            \A v \in 1..MaxInt64 :
                /\ \A w \in ReqVersions :
                       EncodeBytes(FileRequest(y, v)) # EncodeBytes(FileRequest(x, w))
                /\ ~Within(EncodeBytes(FileRequest(y, v)),
                           EncodeBytes(FileRequest(x, MaxInt64)),
                           EncodeBytes(FileRequest(x, 0)))
                /\ (~SameSession(x, y)
                       /\ Within(EncodeBytes(FileRequest(y, v)),
                                 EncodeBytes(artifactKey(x.AppName, x.UserID, x.SessionID,
                                                         NoString, 0)),
                                 EncodeBytes(artifactKey(x.AppName, x.UserID,
                                                         x.SessionID \o <<0>>, NoString, 0))))
                      => y.SessionID # x.SessionID

\* Whether every record of another file than the one req names is in both
\* maps, with the same part.
OthersKept(m1, m2, req) ==
    \A k \in (DOMAIN m1) \cup (DOMAIN m2) :
        ~SameFile(Decode(k).key, req) =>
            k \in DOMAIN m1 /\ k \in DOMAIN m2 /\ m1[k] = m2[k]

\* C24: a Save or a Delete, of one version or of all, changes no record of
\* any other file; List of a session returns no name of a file stored only
\* in other sessions; and the key ranges of two files are apart also when an
\* identifier of one is a prefix of, or followed by NUL is, that of the other.
C24_KeyIsolation ==
    /\ RangesApart
    /\ [](\A id \in AllFiles :
              \A r \in List(artifacts, ListRequest(id)) :
                  Elements(r.val) \subseteq StoredFiles(artifacts, id))
    /\ [][last'.op \in {"Save", "Delete"} =>
              OthersKept(artifacts, artifacts', last'.req)]_vars

\* Delete without version removed every version of the first file; the file
\* of the same name in the session named with a NUL more is still stored,
\* and List of the first session is empty.
C24_Witness ==
    /\ last.op = "Delete" /\ last.req = FileRequest(FirstId, 0) /\ last.pre # {}
    /\ StoredVersions(artifacts, FirstId) = {}
    /\ \E id \in FileIds :
           id.SessionID = FirstId.SessionID \o <<0>> /\ StoredVersions(artifacts, id) # {}
    /\ ListFiles(artifacts, ListRequest(FirstId)) = {}

\* Whether the read of goroutine p answered what the same read of map m
\* answers.
AnswersAs(p, m) ==
    CASE call[p].op = "Load" ->
             /\ call[p].err = Answers[m].Load.err
             /\ call[p].part = Answers[m].Load.val
      [] call[p].op = "Versions" ->
             /\ call[p].err = Answers[m].Versions.err
             /\ call[p].versions = Answers[m].Versions.val
      [] call[p].op = "List" ->
             \E r \in Answers[m].List : call[p].err = r.err /\ call[p].names = r.val

\* C23: a Load, List or Versions made while Saves and Deletes are made
\* answers what it answers on the map as one completed write left it, each
\* write wholly in that map or wholly absent from it; and while a List or a
\* Versions is in its loop the map is that map and does not change.  So a
\* Versions made along with a Delete of all versions of the file answers the
\* whole list of versions or not-found, never a part of the list.
C23_ReadsAtomic ==
    \A p \in Procs :
        /\ pc[p] = "scan" => artifacts = call[p].snap
        /\ (/\ pc[p] \in {"unlock", "return"}
            /\ call[p].op \in {"Load", "List", "Versions"}
            /\ call[p].err # "invalid") => AnswersAs(p, call[p].snap)

\* Versions answered both versions of the file and has not returned yet,
\* while a Delete of all versions is inside DeleteRange with one record
\* removed, and a second Versions waits for the Delete to unlock.
C23_Witness ==
    \E p, w, q \in Procs :
        /\ call[p].op = "Versions" /\ pc[p] = "return"
        /\ call[p].err = "ok" /\ call[p].versions = <<2, 1>>
        /\ call[w].op = "Delete" /\ pc[w] = "range"
        /\ Cardinality(DOMAIN artifacts) = 1
        /\ call[q].op = "Versions" /\ pc[q] = "wait"

====
